---- MODULE Spec2Model ----
(***************************************************************************)
(* Locomotion, animation toggle, input normalisation and render loop of    *)
(* src/src/main.ts (a three.js scene with a walking fox).                   *)
(*                                                                         *)
(* Lengths are counted in thousandths of a world unit, so that the speed   *)
(* 0.012 is the integer 12 and the cube at (3, 0.5, 3) is at (3000, 3000)  *)
(* on the X/Z plane.  Angles are counted in degrees (Math.PI = 180).       *)
(* The Y axis is never written by the handlers or the frame and is left    *)
(* out.  A nullable value is the empty tuple (null) or a one-element tuple. *)
(* Positions are exact: the rounding of the repeated 0.012 additions in     *)
(* double precision is not represented.  camera.lookAt and controls.update  *)
(* (no user input, zero deltas) leave camera.position where the frame put   *)
(* it and are not represented either.  infoButton1 is taken to exist.       *)
(***************************************************************************)
EXTENDS Integers, FiniteSets, Sequences, TLC

\* ---------------------------------------------------------------- bounds
\* frames of movement away from the origin that are explored on each axis
MaxSteps == 2

\* ------------------------------------------------------------- constants
movingSpeed == 12
ProximityLimit == 3000

Null == <<>>
Some(v) == <<v>>

cubePosition == [x |-> 3000, z |-> 3000]
cameraStart == [x |-> 0, z |-> -5000]
sceneOrigin == [x |-> 0, z |-> 0]

\* ---------------------------------------------------------------- inputs
\* event.key values delivered by the keyboard
Keys == {"w", "a", "s", "d", "W", "q",
         "ArrowUp", "ArrowDown", "ArrowLeft", "ArrowRight"}
\* element ids an event target of a control button can carry
TouchIds == {"w", "a", "s", "d", ""}

\* the four tokens the locomotion functions accept
WASD == {"w", "a", "s", "d"}

arrowKeysToWASDMap ==
  [k \in {"ArrowUp", "ArrowDown", "ArrowRight", "ArrowLeft"} |->
     CASE k = "ArrowUp" -> "w"
       [] k = "ArrowDown" -> "s"
       [] k = "ArrowRight" -> "d"
       [] k = "ArrowLeft" -> "a"]

arrowKeys == DOMAIN arrowKeysToWASDMap

\* String.prototype.toLowerCase on the key names above
toLowerCase(k) ==
  CASE k = "W" -> "w"
    [] k = "ArrowUp" -> "arrowup"
    [] k = "ArrowDown" -> "arrowdown"
    [] k = "ArrowLeft" -> "arrowleft"
    [] k = "ArrowRight" -> "arrowright"
    [] OTHER -> k

\* a listener that lower-cases every key and never consults the arrow table
NormalizeKey_noArrowTable(k) == toLowerCase(k)

\* the key expression of the keydown and keyup listeners
NormalizeKey(k) ==
  IF k \in arrowKeys THEN arrowKeysToWASDMap[k] ELSE toLowerCase(k)

\* ----------------------------------------------------------------- state
VARIABLES
  foxModel,            \* null, or the X/Z position of the loaded model
  camera,              \* camera.position on X/Z
  movingOnZ,           \* null or a signed speed
  movingOnX,           \* null or a signed speed
  rotationYTarget,     \* null (no tween started) or the y of the last gsap.to
  idleAnimation,       \* null, "running" or "stopped"
  walkAnimation,       \* null, "running" or "stopped"
  infoButtonVisible,   \* infoButton1 carries the class "visible"
  lastEvent,           \* the callback that ran last, with its event
  lastAccepted,        \* the last locomotion call that passed its guard
  held                 \* directions pressed and not released since

locoVars == <<movingOnZ, movingOnX, rotationYTarget, idleAnimation,
              walkAnimation, lastAccepted>>
sceneVars == <<foxModel, camera, infoButtonVisible>>
vars == <<foxModel, camera, movingOnZ, movingOnX, rotationYTarget,
          idleAnimation, walkAnimation, infoButtonVisible, lastEvent,
          lastAccepted, held>>

Event(t, k, r) == [type |-> t, key |-> k, repeat |-> r]

Init ==
  /\ foxModel = Null
  /\ camera = cameraStart
  /\ movingOnZ = Null
  /\ movingOnX = Null
  /\ rotationYTarget = Null
  /\ idleAnimation = Null
  /\ walkAnimation = Null
  /\ infoButtonVisible \in BOOLEAN
  /\ lastEvent = Event("none", "", FALSE)
  /\ lastAccepted = Null
  /\ held = {}

\* ------------------------------------------------------------ model load
\* the callback of gltfLoader.load; it runs at most once
LoadComplete ==
  /\ foxModel = Null
  /\ idleAnimation' = Some("running")
  /\ walkAnimation' = Some("stopped")
  /\ foxModel' = Some(sceneOrigin)
  /\ lastEvent' = Event("load", "", FALSE)
  /\ UNCHANGED <<camera, movingOnZ, movingOnX, rotationYTarget,
                 infoButtonVisible, lastAccepted, held>>

\* ------------------------------------------------------------ locomotion
\* an action whose stop() leaves it scheduled
Stopped_stillRunning(a) == a

\* AnimationAction.stop / play on a nullable action (the ?. calls)
Stopped(a) == IF a = Null THEN Null ELSE Some("stopped")
Played(a) == IF a = Null THEN Null ELSE Some("running")

\* a guard that tests the token and forgets the model
StartIgnored_noModelCheck(key) ==
  ~(key = "s") /\ ~(key = "w") /\ ~(key = "a") /\ ~(key = "d")

\* a guard that tests the model and forgets the token
StartIgnored_noTokenCheck(key) == foxModel = Null

\* the early return of startWalking
StartIgnored(key) ==
  (~(key = "s") /\ ~(key = "w") /\ ~(key = "a") /\ ~(key = "d"))
    \/ foxModel = Null

\* the early return of stopWalking
StopIgnored(key) ==
  (~(key = "s") /\ ~(key = "w") /\ ~(key = "a") /\ ~(key = "d"))
    \/ foxModel = Null

\* an assignment that leaves Z alone when the key is a strafe key
WalkVelocityZ_keepsOtherAxis(key) ==
  IF key = "w" THEN Some(movingSpeed)
  ELSE IF key = "s" THEN Some(-movingSpeed)
  ELSE movingOnZ

\* the value startWalking assigns to movingOnZ
WalkVelocityZ(key) ==
  IF key = "w" THEN Some(movingSpeed)
  ELSE IF key = "s" THEN Some(-movingSpeed)
  ELSE Null

\* an assignment with the strafe signs exchanged
WalkVelocityX_signsSwapped(key) ==
  IF key = "d" THEN Some(movingSpeed)
  ELSE IF key = "a" THEN Some(-movingSpeed)
  ELSE Null

\* the value startWalking assigns to movingOnX
WalkVelocityX(key) ==
  IF key = "d" THEN Some(-movingSpeed)
  ELSE IF key = "a" THEN Some(movingSpeed)
  ELSE Null

\* a tween that turns the wrong way for the strafe keys
WalkYaw_leftRightSwapped(key) ==
  IF ~(key = "w")
  THEN Some(IF key = "a" THEN -90 ELSE IF key = "d" THEN 90 ELSE 180)
  ELSE rotationYTarget

\* the y of the gsap.to that startWalking starts, if it starts one
WalkYaw(key) ==
  IF ~(key = "w")
  THEN Some(IF key = "a" THEN 90 ELSE IF key = "d" THEN -90 ELSE 180)
  ELSE rotationYTarget

startWalking(key) ==
  IF StartIgnored(key)
  THEN UNCHANGED locoVars
  ELSE /\ movingOnZ' = WalkVelocityZ(key)
       /\ movingOnX' = WalkVelocityX(key)
       /\ rotationYTarget' = WalkYaw(key)
       /\ idleAnimation' = Stopped(idleAnimation)
       /\ walkAnimation' = Played(walkAnimation)
       /\ lastAccepted' = <<"startWalking", key>>

\* a release that clears Z only when the released key is the one moving on Z
StopVelocityZ_onlyOwnDirection(key) ==
  IF (key = "w" /\ movingOnZ = Some(movingSpeed))
       \/ (key = "s" /\ movingOnZ = Some(-movingSpeed))
       \/ key \in {"a", "d"}
  THEN Null
  ELSE movingOnZ

\* the value stopWalking assigns to movingOnZ
StopVelocityZ(key) == Null

\* the value stopWalking assigns to movingOnX
StopVelocityX(key) == Null

\* the y of the gsap.to that stopWalking starts, if it starts one
StopYaw(key) == IF ~(key = "w") THEN Some(0) ELSE rotationYTarget

stopWalking(key) ==
  IF StopIgnored(key)
  THEN UNCHANGED locoVars
  ELSE /\ movingOnX' = StopVelocityX(key)
       /\ movingOnZ' = StopVelocityZ(key)
       /\ rotationYTarget' = StopYaw(key)
       /\ walkAnimation' = Stopped(walkAnimation)
       /\ idleAnimation' = Played(idleAnimation)
       /\ lastAccepted' = <<"stopWalking", key>>

\* ---------------------------------------------------------------- events
KeyDown ==
  \E key \in Keys, repeat \in BOOLEAN :
    /\ held' = held \cup ({NormalizeKey(key)} \cap WASD)
    /\ lastEvent' = Event("keydown", key, repeat)
    /\ IF repeat THEN UNCHANGED locoVars
       ELSE startWalking(NormalizeKey(key))
    /\ UNCHANGED sceneVars

KeyUp ==
  \E key \in Keys, repeat \in BOOLEAN :
    /\ held' = held \ {NormalizeKey(key)}
    /\ lastEvent' = Event("keyup", key, repeat)
    /\ IF repeat THEN UNCHANGED locoVars
       ELSE stopWalking(NormalizeKey(key))
    /\ UNCHANGED sceneVars

TouchStart ==
  \E id \in TouchIds :
    /\ lastEvent' = Event("touchstart", id, FALSE)
    /\ startWalking(id)
    /\ held' = held \cup ({id} \cap WASD)
    /\ UNCHANGED sceneVars

TouchEnd ==
  \E id \in TouchIds :
    /\ lastEvent' = Event("touchend", id, FALSE)
    /\ stopWalking(id)
    /\ held' = held \ {id}
    /\ UNCHANGED sceneVars

\* ----------------------------------------------------------- render loop
Abs(n) == IF n < 0 THEN -n ELSE n

\* a test that also accepts a distance of exactly the limit
Near_inclusive(p) ==
  /\ Abs(p.x - cubePosition.x) <= ProximityLimit
  /\ Abs(p.z - cubePosition.z) <= ProximityLimit

\* the condition under which the frame shows the marker
Near(p) ==
  /\ Abs(p.x - cubePosition.x) < ProximityLimit
  /\ Abs(p.z - cubePosition.z) < ProximityLimit

\* `if (v) pos += v`: null and 0 add nothing
Step(v) == IF v # Null /\ v[1] # 0 THEN v[1] ELSE 0

\* foxModel.position after the two `if (movingOn..)` blocks
FoxAfterFrame(p) ==
  [x |-> p.x + Step(movingOnX), z |-> p.z + Step(movingOnZ)]

\* a camera that follows on Z only
CameraAfterFrame_ZOnly(c) == [x |-> c.x, z |-> c.z + Step(movingOnZ)]

\* camera.position after the two `if (movingOn..)` blocks
CameraAfterFrame(c) ==
  [x |-> c.x + Step(movingOnX), z |-> c.z + Step(movingOnZ)]

\* exploration cap: the code has no limit on the position
InRange(p) ==
  /\ Abs(p.x) <= MaxSteps * movingSpeed
  /\ Abs(p.z) <= MaxSteps * movingSpeed

animate ==
  /\ lastEvent' = Event("animate", "", FALSE)
  /\ IF foxModel # Null
     THEN /\ InRange(FoxAfterFrame(foxModel[1]))
          /\ infoButtonVisible' = Near(foxModel[1])
          /\ foxModel' = Some(FoxAfterFrame(foxModel[1]))
          /\ camera' = CameraAfterFrame(camera)
     ELSE UNCHANGED sceneVars
  /\ UNCHANGED <<locoVars, held>>

Next ==
  \/ LoadComplete
  \/ KeyDown
  \/ KeyUp
  \/ TouchStart
  \/ TouchEnd
  \/ animate

Spec == Init /\ [][Next]_vars

\* ---------------------------------------------------------------- claims
\* the step is a call startWalking(k) made by a listener with token k itself
StartCalled(k) ==
  \/ lastEvent' = Event("touchstart", k, FALSE)
  \/ lastEvent' = Event("keydown", k, FALSE)

\* the step is a call stopWalking(k) made by a listener with token k itself
StopCalled(k) ==
  \/ lastEvent' = Event("touchend", k, FALSE)
  \/ lastEvent' = Event("keyup", k, FALSE)

\* the documented velocity pair <<Z, X>> of a direction
DocumentedVelocity(k) ==
  CASE k = "w" -> <<Some(12), Null>>
    [] k = "s" -> <<Some(-12), Null>>
    [] k = "a" -> <<Null, Some(12)>>
    [] k = "d" -> <<Null, Some(-12)>>

\* C1: with the model loaded, startWalking(k) leaves (Z, X) at w -> (+speed,
\* unset), s -> (-speed, unset), a -> (unset, +speed), d -> (unset, -speed),
\* and stopWalking(k) leaves both axes unset, whatever they were before.
C1_StartSetsStopClears ==
  [][\A k \in WASD :
       foxModel # Null =>
         /\ StartCalled(k) => <<movingOnZ', movingOnX'>> = DocumentedVelocity(k)
         /\ StopCalled(k) => movingOnZ' = Null /\ movingOnX' = Null]_vars

\* a right-strafe press has just replaced another velocity
C1_Witness ==
  /\ foxModel # Null
  /\ lastEvent = Event("touchstart", "d", FALSE)
  /\ "w" \in held
  /\ movingOnZ = Null
  /\ movingOnX = Some(-12)

\* C2: after load exactly one clip is running and the other is stopped: walk
\* if the most recent accepted call is startWalking, idle otherwise.
C2_OneClipRunning ==
  foxModel # Null =>
    IF lastAccepted # Null /\ lastAccepted[1] = "startWalking"
    THEN walkAnimation = Some("running") /\ idleAnimation = Some("stopped")
    ELSE idleAnimation = Some("running") /\ walkAnimation = Some("stopped")

\* the walk clip runs while frames are rendered
C2_Witness ==
  /\ foxModel # Null
  /\ lastAccepted # Null
  /\ lastAccepted[1] = "startWalking"
  /\ lastEvent.type = "animate"
  /\ walkAnimation = Some("running")
  /\ idleAnimation = Some("stopped")

\* C3: while the model is not loaded, no call changes anything: the velocity
\* is unset, no tween has been started, no clip exists or was touched.
C3_NoOpBeforeLoad ==
  foxModel = Null =>
    /\ movingOnZ = Null
    /\ movingOnX = Null
    /\ rotationYTarget = Null
    /\ idleAnimation = Null
    /\ walkAnimation = Null
    /\ lastAccepted = Null

\* a forward press and a left press arrived before the load
C3_Witness ==
  /\ foxModel = Null
  /\ lastEvent = Event("keydown", "w", FALSE)
  /\ "a" \in held
  /\ movingOnZ = Null

\* the step is a locomotion call on a token outside w, a, s, d
UnrecognizedCalled ==
  \/ lastEvent'.type \in {"touchstart", "touchend"} /\ lastEvent'.key = ""
  \/ /\ lastEvent'.type \in {"keydown", "keyup"}
     /\ ~lastEvent'.repeat
     /\ lastEvent'.key = "q"

\* C4: with the model loaded, a call on a token outside w, a, s, d leaves
\* velocity, facing target and clips as they were.
C4_UnrecognizedLeavesState ==
  [][(foxModel # Null /\ UnrecognizedCalled) =>
       UNCHANGED <<movingOnZ, movingOnX, rotationYTarget, idleAnimation,
                   walkAnimation>>]_vars

\* "q" was pressed while the character walks left
C4_Witness ==
  /\ foxModel # Null
  /\ lastEvent = Event("keydown", "q", FALSE)
  /\ movingOnX = Some(12)
  /\ rotationYTarget = Some(90)
  /\ walkAnimation = Some("running")

\* C5: the facing target after startWalking is a -> 90, d -> -90, s -> 180,
\* after stopWalking of a, d or s it is 0; w leaves it as it was.
C5_FacingTarget ==
  [][foxModel # Null =>
       /\ StartCalled("a") => rotationYTarget' = Some(90)
       /\ StartCalled("d") => rotationYTarget' = Some(-90)
       /\ StartCalled("s") => rotationYTarget' = Some(180)
       /\ \A k \in {"a", "d", "s"} : StopCalled(k) => rotationYTarget' = Some(0)
       /\ (StartCalled("w") \/ StopCalled("w")) =>
            rotationYTarget' = rotationYTarget]_vars

\* forward was pressed while the character faces left, and it still does
C5_Witness ==
  /\ foxModel # Null
  /\ lastEvent = Event("keydown", "w", FALSE)
  /\ lastAccepted = <<"startWalking", "w">>
  /\ rotationYTarget = Some(90)

\* C6: a frame run with the model loaded shows the marker iff the position at
\* its start is less than 3 from the object on X and on Z; a frame run before
\* the load leaves the marker as it was.
C6_MarkerProximity ==
  [][lastEvent'.type = "animate" =>
       IF foxModel # Null
       THEN infoButtonVisible' =
              (/\ Abs(foxModel[1].x - 3000) < 3000
               /\ Abs(foxModel[1].z - 3000) < 3000)
       ELSE infoButtonVisible' = infoButtonVisible]_vars

\* a frame found the character inside the square and showed the marker
C6_Witness ==
  /\ foxModel # Null
  /\ lastEvent.type = "animate"
  /\ infoButtonVisible
  /\ foxModel[1].x > 0
  /\ foxModel[1].z > 0

\* the token the input mapper is documented to hand to the controller
DocumentedToken(k) ==
  CASE k = "ArrowUp" -> "w"
    [] k = "ArrowDown" -> "s"
    [] k = "ArrowLeft" -> "a"
    [] k = "ArrowRight" -> "d"
    [] k = "W" -> "w"
    [] OTHER -> k

\* C7: a keydown (keyup) acts as startWalking (stopWalking) on the arrow
\* table's token or else the lower-cased key, an auto-repeat keydown changes
\* nothing, and a touch passes the element id unchanged.
C7_InputNormalization ==
  [][/\ (lastEvent'.type = "keydown" /\ ~lastEvent'.repeat) =>
          startWalking(DocumentedToken(lastEvent'.key))
     /\ (lastEvent'.type = "keyup" /\ ~lastEvent'.repeat) =>
          stopWalking(DocumentedToken(lastEvent'.key))
     /\ (lastEvent'.type = "keydown" /\ lastEvent'.repeat) =>
          UNCHANGED <<locoVars, sceneVars>>
     /\ lastEvent'.type = "touchstart" => startWalking(lastEvent'.key)
     /\ lastEvent'.type = "touchend" => stopWalking(lastEvent'.key)]_vars

\* the left arrow was pressed and the character strafes left
C7_Witness ==
  /\ foxModel # Null
  /\ lastEvent = Event("keydown", "ArrowLeft", FALSE)
  /\ lastAccepted = <<"startWalking", "a">>
  /\ movingOnX = Some(12)
  /\ rotationYTarget = Some(90)

\* C8: never both axes set; the velocity is the one of the most recent
\* accepted press, or unset.
C8_NoDiagonal ==
  /\ ~(movingOnZ # Null /\ movingOnX # Null)
  /\ <<movingOnZ, movingOnX>> =
       IF lastAccepted # Null /\ lastAccepted[1] = "startWalking"
       THEN DocumentedVelocity(lastAccepted[2])
       ELSE <<Null, Null>>

\* forward and left are both held, and only left moves the character
C8_Witness ==
  /\ foxModel # Null
  /\ {"w", "a"} \subseteq held
  /\ lastAccepted = <<"startWalking", "a">>
  /\ movingOnZ = Null
  /\ movingOnX = Some(12)
  /\ foxModel[1].z > 0

\* a release was the last accepted call and some direction is still held
ReleasedWhileHeld ==
  /\ foxModel # Null
  /\ lastAccepted # Null
  /\ lastAccepted[1] = "stopWalking"
  /\ held # {}

\* C9: after a release, with another direction still held, the velocity is
\* unset, the idle clip runs, and frames leave the position where it is.
C9_ReleaseClearsAll ==
  /\ [](ReleasedWhileHeld =>
          /\ movingOnZ = Null
          /\ movingOnX = Null
          /\ idleAnimation = Some("running")
          /\ walkAnimation = Some("stopped"))
  /\ [][(ReleasedWhileHeld /\ lastEvent'.type = "animate") =>
          foxModel' = foxModel]_vars

\* forward then backward were pressed, forward was released, frames ran
C9_Witness ==
  /\ foxModel # Null
  /\ lastAccepted = <<"stopWalking", "w">>
  /\ held = {"s"}
  /\ rotationYTarget = Some(180)
  /\ lastEvent.type = "animate"
  /\ movingOnZ = Null
  /\ foxModel[1].z # 0

\* an unset axis adds nothing
Added(v) == IF v = Null THEN 0 ELSE v[1]

\* C10: a loaded frame adds the velocity to character and camera alike, a
\* frame before the load moves neither, and after load the camera stays at
\* offset 0 on X and -5 on Z from the character.
C10_CameraLockstep ==
  /\ [](foxModel # Null =>
          /\ camera.x - foxModel[1].x = 0
          /\ camera.z - foxModel[1].z = -5000)
  /\ [][lastEvent'.type = "animate" =>
          IF foxModel = Null
          THEN foxModel' = Null /\ camera' = camera
          ELSE /\ foxModel'[1].x = foxModel[1].x + Added(movingOnX)
               /\ foxModel'[1].z = foxModel[1].z + Added(movingOnZ)
               /\ camera'.x = camera.x + Added(movingOnX)
               /\ camera'.z = camera.z + Added(movingOnZ)]_vars

\* the character has walked on both axes and the camera went with it
C10_Witness ==
  /\ foxModel # Null
  /\ lastEvent.type = "animate"
  /\ foxModel[1].x < 0
  /\ foxModel[1].z > 0
  /\ camera.x = foxModel[1].x
  /\ movingOnX = Some(-12)

====
